---- MODULE Spec2Model ----
(***************************************************************************)
(* Court booking engine of src/courtbooking.py: the bookings table, the    *)
(* logs table, the UTC+4 clock, and the script runs of the Streamlit       *)
(* sessions (expired-bookings sweep, the Book tab's "Confirm & Book Slot"  *)
(* handler, the My Bookings tab's "Cancel Booking" buttons), each run a    *)
(* sequence of separate requests to the tables and readings of the clock.  *)
(*                                                                         *)
(* Dates are day numbers: the code compares '%Y-%m-%d' strings, whose      *)
(* lexicographic order is the order of the days they name.  A claimant     *)
(* (sub_community, villa) is one value of Villas.                          *)
(***************************************************************************)
EXTENDS Integers, Sequences, FiniteSets, TLC

\* ---------------------------------------------------------------- constants
FirstHour == 7
LastHour == 21
GlobalQuota == 6
DailyQuota == 2
WindowDays == 14

\* ------------------------------------------------------------------- bounds
\* Clock readings have day 0..MaxDay.
MaxDay == 1
\* Requested dates are today..today+MaxAhead (at most WindowDays ahead).
MaxAhead == 0
\* Requested hours, and the clock's hours, are the last MaxHourBack+1 hours of
\* start_hours.
MaxHourBack == 1
\* At most MaxRuns script runs are started.
MaxRuns == 2

Sessions == {1, 2}
Villas == {"M1-10", "M2-20"}
ReqCourts == {"Mira 2"}
Minutes == {0, 1}
None == -1

start_hours == FirstHour..LastHour
ReqHours == (LastHour - MaxHourBack)..LastHour
Times == [day : 0..MaxDay, hour : ReqHours, minute : Minutes]

VARIABLES
  bookings,         \* the bookings table: rows [id, villa, court, date, start_hour]
  next_id,          \* the next id the table assigns
  logs,             \* the logs table: rows appended since the initial state
  now,              \* get_utc_plus_4(): [day, hour, minute]
  villa,            \* st.session_state.villa/sub_community of each session
  pc,               \* where each session's script run stands
  run,              \* the local values of each session's script run
  outcome,          \* what the latest step reported, and to which session
  runs              \* the number of script runs started

vars == <<bookings, next_id, logs, now, villa, pc, run, outcome, runs>>

\* ------------------------------------------------------------ pure functions

\* get_today(): the date of a clock reading.
get_today(t) == t.day

\* get_next_14_days(): the dates from today on, those of them a resident asks
\* for today..today+MaxAhead.
get_next_14_days(t) ==
  {get_today(t) + i : i \in 0..WindowDays} \cap (get_today(t)..(get_today(t) + MaxAhead))

\* t is strictly later than u.
Later(t, u) ==
  \/ t.day > u.day
  \/ t.day = u.day /\ t.hour > u.hour
  \/ t.day = u.day /\ t.hour = u.hour /\ t.minute > u.minute

\* is_slot_in_past without the minute test of line 99.
is_slot_in_past_no_minute(t, date_str, start_hour) ==
  IF date_str < get_today(t) THEN TRUE
  ELSE IF date_str > get_today(t) THEN FALSE
  ELSE IF start_hour < t.hour THEN TRUE
  ELSE FALSE

\* is_slot_in_past with the hour test of line 98 taken inclusive.
is_slot_in_past_hour_inclusive(t, date_str, start_hour) ==
  IF date_str < get_today(t) THEN TRUE
  ELSE IF date_str > get_today(t) THEN FALSE
  ELSE IF start_hour <= t.hour THEN TRUE
  ELSE FALSE

\* is_slot_in_past(date_str, start_hour), with the clock reading t it takes.
is_slot_in_past(t, date_str, start_hour) ==
  IF date_str < get_today(t) THEN TRUE
  ELSE IF date_str > get_today(t) THEN FALSE
  ELSE IF start_hour < t.hour THEN TRUE
  ELSE IF start_hour = t.hour /\ t.minute > 0 THEN TRUE
  ELSE FALSE

\* is_slot_booked(court, date_str, start_hour) on table bk.
is_slot_booked(bk, court, date_str, start_hour) ==
  Cardinality({b \in bk : b.court = court /\ b.date = date_str
                          /\ b.start_hour = start_hour}) > 0

\* Lines 194-195 of get_available_hours: the loop's body for hour h, with t the
\* clock reading is_slot_in_past makes for that hour.
available_step(available, booked_hours, t, date_str, h) ==
  IF h \notin booked_hours /\ ~is_slot_in_past(t, date_str, h)
  THEN Append(available, h)
  ELSE available

\* The loop of get_available_hours from hour h on, ascending through
\* start_hours; readings[h] is the clock reading made for hour h.
RECURSIVE available_from(_, _, _, _, _)
available_from(available, booked_hours, readings, date_str, h) ==
  IF h > LastHour THEN available
  ELSE available_from(available_step(available, booked_hours, readings[h], date_str, h),
                      booked_hours, readings, date_str, h + 1)

\* get_available_hours(court, date_str), the loop reading the clock as readings.
get_available_hours(bk, readings, court, date_str) ==
  LET booked_hours == {b.start_hour : b \in {r \in bk : r.court = court /\ r.date = date_str}}
  IN available_from(<<>>, booked_hours, readings, date_str, FirstHour)

\* The readings of a loop during which the clock stands at t.
AtOnce(t) == [h \in start_hours |-> t]

\* The filter with start_hour.gt in place of start_hour.gte.
active_filter_strict(b, today_str, now_hour) ==
  \/ b.date > today_str
  \/ b.date = today_str /\ b.start_hour > now_hour

\* The or_ filter of get_active_bookings_count, with today_str and now_hour.
active_filter(b, today_str, now_hour) ==
  \/ b.date > today_str
  \/ b.date = today_str /\ b.start_hour >= now_hour

\* get_active_bookings_count(villa, sub_community), with the values it read
\* from the clock.
get_active_bookings_count(bk, today_str, now_hour, v) ==
  Cardinality({b \in bk : b.villa = v /\ active_filter(b, today_str, now_hour)})

\* get_daily_bookings_count(villa, sub_community, date_str).
get_daily_bookings_count(bk, v, date_str) ==
  Cardinality({b \in bk : b.villa = v /\ b.date = date_str})

\* The Book tab's time slot: None when no hour is free, else the hour the
\* resident has selected among the free hours offered.
selectable(free_hours, time_choice) ==
  IF free_hours = <<>> THEN time_choice = None
  ELSE \E i \in 1..Len(free_hours) : free_hours[i] = time_choice

\* The handler with active_count > 6 in place of >= 6.
book_result_global_off_by_one(time_choice, active_count, daily_count, slot_booked) ==
  IF time_choice = None THEN "SlotExpired"
  ELSE IF active_count > GlobalQuota THEN "GlobalQuotaExceeded"
  ELSE IF daily_count >= DailyQuota THEN "DailyQuotaExceeded"
  ELSE IF slot_booked THEN "SlotAlreadyBooked"
  ELSE "Ok"

\* The handler with daily_count > 2 in place of >= 2.
book_result_daily_off_by_one(time_choice, active_count, daily_count, slot_booked) ==
  IF time_choice = None THEN "SlotExpired"
  ELSE IF active_count >= GlobalQuota THEN "GlobalQuotaExceeded"
  ELSE IF daily_count > DailyQuota THEN "DailyQuotaExceeded"
  ELSE IF slot_booked THEN "SlotAlreadyBooked"
  ELSE "Ok"

\* The handler with the daily test before the overall one.
book_result_daily_first(time_choice, active_count, daily_count, slot_booked) ==
  IF time_choice = None THEN "SlotExpired"
  ELSE IF daily_count >= DailyQuota THEN "DailyQuotaExceeded"
  ELSE IF active_count >= GlobalQuota THEN "GlobalQuotaExceeded"
  ELSE IF slot_booked THEN "SlotAlreadyBooked"
  ELSE "Ok"

\* The branch the "Confirm & Book Slot" handler takes.
book_result(time_choice, active_count, daily_count, slot_booked) ==
  IF time_choice = None THEN "SlotExpired"
  ELSE IF active_count >= GlobalQuota THEN "GlobalQuotaExceeded"
  ELSE IF daily_count >= DailyQuota THEN "DailyQuotaExceeded"
  ELSE IF slot_booked THEN "SlotAlreadyBooked"
  ELSE "Ok"

\* What one run of the handler reports for claimant v on table bk at clock
\* reading t (lines 414-448).
book_outcome(bk, t, v, court, date_str, time_choice) ==
  book_result(time_choice,
              get_active_bookings_count(bk, get_today(t), t.hour, v),
              get_daily_bookings_count(bk, v, date_str),
              is_slot_booked(bk, court, date_str, time_choice))

\* The row book_slot inserts.
new_row(id, v, court, date_str, start_hour) ==
  [id |-> id, villa |-> v, court |-> court, date |-> date_str, start_hour |-> start_hour]

\* The row add_log inserts: the event type and what the detail text names.
log_row(event_type, v, court, date_str, start_hour) ==
  [event_type |-> event_type, villa |-> v, court |-> court,
   date |-> date_str, start_hour |-> start_hour]

\* The first delete removing one matching row only (the one of least id).
delete_before_today_one_row(bk, today_str) ==
  LET matching == {b \in bk : b.date < today_str}
  IN IF matching = {} THEN bk
     ELSE bk \ {CHOOSE b \in matching : \A c \in matching : b.id <= c.id}

\* The table after the first delete of delete_expired_bookings.
delete_before_today(bk, today_str) == {b \in bk : ~(b.date < today_str)}

\* The second delete with lte in place of lt.
delete_today_before_hour_inclusive(bk, today_str, current_hour) ==
  {b \in bk : ~(b.date = today_str /\ b.start_hour <= current_hour)}

\* The table after the second delete of delete_expired_bookings.
delete_today_before_hour(bk, today_str, current_hour) ==
  {b \in bk : ~(b.date = today_str /\ b.start_hour < current_hour)}

\* delete_expired_bookings() with one clock reading t.
delete_expired_bookings(bk, t) ==
  delete_today_before_hour(delete_before_today(bk, get_today(t)), get_today(t), t.hour)

\* The delete of delete_booking matching the villa alone.
delete_row_all_of_villa(bk, booking_id, v) == {b \in bk : b.villa # v}

\* The table after the delete of delete_booking.
delete_row(bk, booking_id, v) == {b \in bk : ~(b.id = booking_id /\ b.villa = v)}

\* The courts, in the order of line 21, which is also the order of their names.
courts == <<"Mira 2", "Mira 4", "Mira 5A", "Mira 5B", "Mira Oasis 1", "Mira Oasis 2",
            "Mira Oasis 3A", "Mira Oasis 3B", "Mira Oasis 3C">>

court_rank(c) == CHOOSE i \in 1..Len(courts) : courts[i] = c

\* get_user_bookings(villa, sub_community): the rows of the claimant.
get_user_bookings(bk, v) == {b \in bk : b.villa = v}

\* The order of sort_values(['date', 'court', 'start_hour']): a is not after b.
sort_key_leq(a, b) ==
  \/ a.date < b.date
  \/ a.date = b.date /\ court_rank(a.court) < court_rank(b.court)
  \/ a.date = b.date /\ a.court = b.court /\ a.start_hour <= b.start_hour

\* The orders sort_values may put the rows in: rows of equal key in any order.
RECURSIVE sort_values(_)
sort_values(rows) ==
  IF rows = {} THEN {<<>>}
  ELSE LET firsts == {r \in rows : \A q \in rows : sort_key_leq(r, q)}
       IN UNION {{<<r>> \o rest : rest \in sort_values(rows \ {r})} : r \in firsts}

\* The card a row opens (lines 491-496, 505-510).
new_card(row) ==
  [court |-> row.court, date |-> row.date, max_hour |-> row.start_hour, ids |-> <<row.id>>]

\* The loop of lines 489-511 from row i on: current is the card being built
\* (<<>> for None), merged the cards closed so far.
RECURSIVE merge_from(_, _, _, _)
merge_from(sorted, i, current, merged) ==
  IF i > Len(sorted) THEN merged \o current
  ELSE LET row == sorted[i]
       IN IF current = <<>>
          THEN merge_from(sorted, i + 1, <<new_card(row)>>, merged)
          ELSE LET c == current[1]
               IN IF row.date = c.date /\ row.court = c.court
                     /\ row.start_hour = c.max_hour + 1
                  THEN merge_from(sorted, i + 1,
                                  <<[c EXCEPT !.max_hour = row.start_hour,
                                              !.ids = Append(c.ids, row.id)]>>,
                                  merged)
                  ELSE merge_from(sorted, i + 1, <<new_card(row)>>, merged \o current)

\* merged_bookings of lines 485-511, for the rows in the order sorted.
merged_bookings(sorted) == merge_from(sorted, 1, <<>>, <<>>)

\* The id lists b['ids'] of the cards the My Bookings tab may show for rows.
card_ids(rows) ==
  UNION {{merged_bookings(sorted)[i].ids : i \in 1..Len(merged_bookings(sorted))} :
           sorted \in sort_values(rows)}


\* What an operation reports to its session (st.error, st.success, an exception),
\* with the request it answers.
Report(s, op, result, court, date_str, start_hour, booking_id) ==
  [session |-> s, op |-> op, result |-> result, court |-> court, date |-> date_str,
   start_hour |-> start_hour, id |-> booking_id]

NoReport == Report(None, "none", "none", "none", None, None, None)

\* ------------------------------------------------------------ initial states

\* The locals of a script run; unset ones are None (the empty list for ids, the
\* empty set for date_options and record).  today_at is the clock reading
\* today_str was formatted from.
NoLocals ==
  [date_options |-> {}, court |-> "none", date |-> None, booked_hours |-> {},
   h |-> None, free_hours |-> <<>>, time_choice |-> None,
   today_at |-> None, today_str |-> None, now_hour |-> None, active_count |-> None, daily_count |-> None,
   ids |-> <<>>, booking_id |-> None, record |-> {}]

\* Row i of a table in which one claimant holds DailyQuota bookings a day from
\* day 1 on, at the last hours of the day, on a court of its own.
SeedRow(i) ==
  new_row(i, "M1-10", "Mira 4", 1 + ((i - 1) \div DailyQuota),
          LastHour - ((i - 1) % DailyQuota))

SeedStore(k) == {SeedRow(i) : i \in 1..k}

\* Every session has made its first script run (the sweep of lines 183-185 found
\* nothing to delete) and has confirmed its identity.
Init ==
  /\ \E k \in {GlobalQuota - 1, GlobalQuota} :
       /\ bookings = SeedStore(k)
       /\ next_id = k + 1
  /\ logs = <<>>
  /\ now = [day |-> 0, hour |-> LastHour - MaxHourBack, minute |-> 0]
  /\ villa \in {f \in [Sessions -> Villas] : f[1] = "M1-10"}
  /\ pc = [s \in Sessions |-> "idle"]
  /\ run = [s \in Sessions |-> NoLocals]
  /\ outcome = NoReport
  /\ runs = 0

\* ------------------------------------------------------------------ actions
\* One action is one request to the tables, or one reading of the clock, of a
\* script run; the requests and readings of the sessions' runs interleave.

\* The script run of session s ends reporting r.
Finish(s, op, r) ==
  /\ pc' = [pc EXCEPT ![s] = "idle"]
  /\ run' = [run EXCEPT ![s] = NoLocals]
  /\ outcome' = Report(s, op, r, run[s].court, run[s].date, run[s].time_choice,
                       run[s].booking_id)

\* Session s goes on to position p with the locals changed to r.
Goto(s, p, r) ==
  /\ pc' = [pc EXCEPT ![s] = p]
  /\ run' = [run EXCEPT ![s] = r]
  /\ outcome' = NoReport

\* Session s starts a script run.
Start(s) ==
  /\ pc[s] = "idle"
  /\ runs < MaxRuns
  /\ runs' = runs + 1

\* The clock moves on.
Tick ==
  /\ \E t \in Times : Later(t, now) /\ now' = t
  /\ outcome' = NoReport
  /\ UNCHANGED <<bookings, next_id, logs, villa, pc, run, runs>>

\* ---- a run of the script with "Confirm & Book Slot" pressed

\* Lines 33 and 315: the clock reading of get_next_14_days, from which the
\* dates of the Book tab's date box (line 405) are made.
BookDates(s) ==
  /\ Start(s)
  /\ Goto(s, "dates", [run[s] EXCEPT !.date_options = get_next_14_days(now)])
  /\ UNCHANGED <<bookings, next_id, logs, now, villa>>

\* Lines 189-191: the request of get_available_hours for the court and date
\* chosen.
BookHours(s, court, date_str) ==
  /\ pc[s] = "dates"
  /\ date_str \in run[s].date_options
  /\ Goto(s, "loop",
          [run[s] EXCEPT !.date_options = {}, !.court = court, !.date = date_str,
             !.booked_hours = {b.start_hour : b \in {r \in bookings :
                                  r.court = court /\ r.date = date_str}},
             !.h = FirstHour, !.free_hours = <<>>])
  /\ UNCHANGED <<bookings, next_id, logs, now, villa, runs>>

\* Lines 193-195: one turn of the loop over start_hours, with its clock reading
\* (line 94); after the last hour the list is returned (line 196).
BookLoop(s) ==
  LET available == available_step(run[s].free_hours, run[s].booked_hours, now,
                                  run[s].date, run[s].h)
  IN /\ pc[s] = "loop"
     /\ IF run[s].h = LastHour
        THEN Goto(s, "choose", [run[s] EXCEPT !.booked_hours = {}, !.h = None,
                                              !.free_hours = available])
        ELSE Goto(s, "loop", [run[s] EXCEPT !.h = run[s].h + 1,
                                            !.free_hours = available])
     /\ UNCHANGED <<bookings, next_id, logs, now, villa, runs>>

\* Lines 416-425: the time slot chosen among the free hours listed.
BookChoose(s, time_choice) ==
  /\ pc[s] = "choose"
  /\ selectable(run[s].free_hours, time_choice)
  /\ Goto(s, "today", [run[s] EXCEPT !.free_hours = <<>>, !.time_choice = time_choice])
  /\ UNCHANGED <<bookings, next_id, logs, now, villa, runs>>

\* Line 66: today_str of get_active_bookings_count.
BookToday(s) ==
  /\ pc[s] = "today"
  /\ Goto(s, "hour", [run[s] EXCEPT !.today_at = now, !.today_str = get_today(now)])
  /\ UNCHANGED <<bookings, next_id, logs, now, villa, runs>>

\* Line 67: now_hour of get_active_bookings_count.
BookHour(s) ==
  /\ pc[s] = "hour"
  /\ Goto(s, "active", [run[s] EXCEPT !.now_hour = now.hour])
  /\ UNCHANGED <<bookings, next_id, logs, now, villa, runs>>

\* Lines 68-73: the request of get_active_bookings_count.
BookActive(s) ==
  /\ pc[s] = "active"
  /\ Goto(s, "daily",
          [run[s] EXCEPT !.today_at = None, !.today_str = None, !.now_hour = None,
             !.active_count = get_active_bookings_count(bookings, run[s].today_str,
                                                        run[s].now_hour, villa[s])])
  /\ UNCHANGED <<bookings, next_id, logs, now, villa, runs>>

\* Lines 77-82: the request of get_daily_bookings_count.
BookDaily(s) ==
  /\ pc[s] = "daily"
  /\ Goto(s, "confirm",
          [run[s] EXCEPT !.daily_count =
             get_daily_bookings_count(bookings, villa[s], run[s].date)])
  /\ UNCHANGED <<bookings, next_id, logs, now, villa, runs>>

\* The checks with every rejection written to the logs table.
Confirm_logging_rejections(s) ==
  LET result == book_result(run[s].time_choice, run[s].active_count, run[s].daily_count,
                            is_slot_booked(bookings, run[s].court, run[s].date,
                                           run[s].time_choice))
  IN /\ pc[s] = "confirm"
     /\ IF result = "Ok"
        THEN /\ Goto(s, "insert", run[s])
             /\ UNCHANGED logs
        ELSE /\ Finish(s, "book", result)
             /\ logs' = Append(logs, log_row("Booking Rejected", villa[s], run[s].court,
                                             run[s].date, run[s].time_choice))
     /\ UNCHANGED <<bookings, next_id, now, villa, runs>>

\* Lines 436-446: the checks, the request of is_slot_booked the last of them.
Confirm(s) ==
  LET result == book_result(run[s].time_choice, run[s].active_count, run[s].daily_count,
                            is_slot_booked(bookings, run[s].court, run[s].date,
                                           run[s].time_choice))
  IN /\ pc[s] = "confirm"
     /\ IF result = "Ok"
        THEN Goto(s, "insert", run[s])
        ELSE Finish(s, "book", result)
     /\ UNCHANGED <<bookings, next_id, logs, now, villa, runs>>

\* Lines 103-109 of book_slot: the insert.  The insert of a second row for a
\* slot either goes through or, where the table declares the slot unique,
\* raises.
Insert(s) ==
  /\ pc[s] = "insert"
  /\ \/ /\ bookings' = bookings \cup {new_row(next_id, villa[s], run[s].court,
                                         run[s].date, run[s].time_choice)}
        /\ next_id' = next_id + 1
        /\ Goto(s, "log", [run[s] EXCEPT !.active_count = None, !.daily_count = None])
     \/ /\ is_slot_booked(bookings, run[s].court, run[s].date, run[s].time_choice)
        /\ Finish(s, "book", "Fault")
        /\ UNCHANGED <<bookings, next_id>>
  /\ UNCHANGED <<logs, now, villa, runs>>

\* The log row of book_slot replacing the rows of the logs table.
BookLog_replacing(s) ==
  /\ pc[s] = "log"
  /\ logs' = <<log_row("Booking Created", villa[s], run[s].court, run[s].date,
                       run[s].time_choice)>>
  /\ Finish(s, "book", "Ok")
  /\ UNCHANGED <<bookings, next_id, now, villa, runs>>

\* Lines 110-111 of book_slot and 36-42: the log row; the run reports success
\* (lines 449-455).
BookLog(s) ==
  /\ pc[s] = "log"
  /\ logs' = Append(logs, log_row("Booking Created", villa[s], run[s].court, run[s].date,
                                  run[s].time_choice))
  /\ Finish(s, "book", "Ok")
  /\ UNCHANGED <<bookings, next_id, now, villa, runs>>

\* ---- a run of the script with a "Cancel Booking" button pressed

\* Lines 478-511 and 560-561: the request of get_user_bookings, the cards, and
\* the card whose button is pressed.
CancelList(s, ids) ==
  /\ Start(s)
  /\ ids \in card_ids(get_user_bookings(bookings, villa[s]))
  /\ Goto(s, "select", [run[s] EXCEPT !.ids = ids])
  /\ UNCHANGED <<bookings, next_id, logs, now, villa>>

\* Line 123 of delete_booking, for the next id of the card: the select by id.
\* With no row of that id, .single() raises or, where it returns no data, the
\* run goes on to the delete.
CancelSelect(s) ==
  LET booking_id == Head(run[s].ids)
      record == {b \in bookings : b.id = booking_id}
  IN /\ pc[s] = "select"
     /\ IF record = {}
        THEN \/ /\ pc' = [pc EXCEPT ![s] = "idle"]
                /\ run' = [run EXCEPT ![s] = NoLocals]
                /\ outcome' = Report(s, "cancel", "Fault", "none", None, None, booking_id)
             \/ Goto(s, "delete", [run[s] EXCEPT !.booking_id = booking_id,
                                                  !.record = {}])
        ELSE Goto(s, "cancel_log", [run[s] EXCEPT !.booking_id = booking_id,
                                                  !.record = record])
     /\ UNCHANGED <<bookings, next_id, logs, now, villa, runs>>

\* Lines 124-127 of delete_booking: the log row, from the record selected.
CancelLog(s) ==
  /\ pc[s] = "cancel_log"
  /\ \E b \in run[s].record :
       logs' = Append(logs, log_row("Booking Deleted", villa[s], b.court, b.date,
                                    b.start_hour))
  /\ Goto(s, "delete", run[s])
  /\ UNCHANGED <<bookings, next_id, now, villa, runs>>

\* Line 129 of delete_booking: the delete; after the last id of the card the
\* run reports success (line 563).
CancelDelete(s) ==
  /\ pc[s] = "delete"
  /\ bookings' = delete_row(bookings, run[s].booking_id, villa[s])
  /\ IF Tail(run[s].ids) = <<>>
     THEN /\ pc' = [pc EXCEPT ![s] = "idle"]
          /\ run' = [run EXCEPT ![s] = NoLocals]
          /\ outcome' = Report(s, "cancel", "Cancelled", "none", None, None,
                               run[s].booking_id)
     ELSE Goto(s, "select", [run[s] EXCEPT !.ids = Tail(run[s].ids),
                                           !.booking_id = None, !.record = {}])
  /\ UNCHANGED <<next_id, logs, now, villa, runs>>

\* ---- the first script run of a fresh session of the same resident

\* Lines 176-178 of delete_expired_bookings: the clock reading.
ReclaimClock(s) ==
  /\ Start(s)
  /\ Goto(s, "sweep_date", [run[s] EXCEPT !.today_str = get_today(now),
                                           !.now_hour = now.hour])
  /\ UNCHANGED <<bookings, next_id, logs, now, villa>>

\* Line 180 of delete_expired_bookings: the first delete.
ReclaimFirst(s) ==
  /\ pc[s] = "sweep_date"
  /\ bookings' = delete_before_today(bookings, run[s].today_str)
  /\ Goto(s, "sweep_hour", run[s])
  /\ UNCHANGED <<next_id, logs, now, villa, runs>>

\* The second delete taking today's date from a new clock reading, the hour
\* from the reading of line 176.
ReclaimSecond_reread_today(s) ==
  /\ pc[s] = "sweep_hour"
  /\ bookings' = delete_today_before_hour(bookings, get_today(now), run[s].now_hour)
  /\ Goto(s, "idle", NoLocals)
  /\ UNCHANGED <<next_id, logs, now, villa, runs>>

\* Line 181 of delete_expired_bookings: the second delete.
ReclaimSecond(s) ==
  /\ pc[s] = "sweep_hour"
  /\ bookings' = delete_today_before_hour(bookings, run[s].today_str, run[s].now_hour)
  /\ Goto(s, "idle", NoLocals)
  /\ UNCHANGED <<next_id, logs, now, villa, runs>>

\* ---- the steps of the runs

BookStep(s) ==
  \/ \E court \in ReqCourts, date_str \in 0..(MaxDay + MaxAhead) :
       BookHours(s, court, date_str)
  \/ BookLoop(s)
  \/ \E h \in ReqHours \cup {None} : BookChoose(s, h)
  \/ BookToday(s)
  \/ BookHour(s)
  \/ BookActive(s)
  \/ BookDaily(s)
  \/ Confirm(s)
  \/ Insert(s)
  \/ BookLog(s)

CancelStart(s) ==
  \E ids \in card_ids(get_user_bookings(bookings, villa[s])) : CancelList(s, ids)

CancelStep(s) == CancelSelect(s) \/ CancelLog(s) \/ CancelDelete(s)

ReclaimStep(s) == ReclaimFirst(s) \/ ReclaimSecond(s)

\* The clock moves, and the requests and clock readings of the sessions' runs
\* come in any order.
Next ==
  \/ Tick
  \/ \E s \in Sessions : BookDates(s) \/ BookStep(s)
  \/ \E s \in Sessions : CancelStart(s) \/ CancelStep(s)
  \/ \E s \in Sessions : ReclaimClock(s) \/ ReclaimStep(s)

Spec == Init /\ [][Next]_vars

\* ------------------------------------------------------------------- claims

\* The "outstanding" predicate of the quota definition, at the clock's reading.
Outstanding(b) ==
  \/ b.date > now.day
  \/ b.date = now.day /\ b.start_hour >= now.hour

OutstandingOf(v) == {b \in bookings : b.villa = v /\ Outstanding(b)}

OutstandingOn(v, d) == {b \in OutstandingOf(v) : b.date = d}

RowsOn(v, d) == {b \in bookings : b.villa = v /\ b.date = d}

SlotRows(bk, court, d, h) ==
  {b \in bk : b.court = court /\ b.date = d /\ b.start_hour = h}

ReqDates == now.day..(now.day + MaxAhead)

\* Session s takes the step of its run that stands at position p.
Leaves(s, p) == pc[s] = p /\ pc'[s] # p

\* The number of v's rows of table bk that are outstanding at day d, hour h.
OutstandingAt(bk, d, h, v) ==
  Cardinality({b \in bk : b.villa = v /\ (b.date > d \/ (b.date = d /\ b.start_hour >= h))})

\* The book request of session s is executed as one step: the counts its run
\* has read are those of the table and the clock as they stand.
OneStep(s) ==
  /\ run[s].active_count = OutstandingAt(bookings, now.day, now.hour, villa[s])
  /\ run[s].daily_count = Cardinality(RowsOn(villa[s], run[s].date))

\* Row b is the row of the request of session s's book run.
RequestRow(s, b) ==
  /\ b.villa = villa[s]
  /\ b.court = run[s].court
  /\ b.date = run[s].date
  /\ b.start_hour = run[s].time_choice

\* C1: in every state the table holds at most one row for each
\* (court, date, start_hour).
MutualExclusion ==
  \A b1 \in bookings : \A b2 \in bookings :
    (b1.court = b2.court /\ b1.date = b2.date /\ b1.start_hour = b2.start_hour)
      => b1 = b2

\* C2: a request that passed every check and reaches its insert after a
\* concurrent request has taken the slot reports SlotAlreadyBooked and
\* inserts nothing (the other request having reported Ok).
RaceLoserSlotAlreadyBooked ==
  [][\A s \in Sessions :
       (/\ Leaves(s, "insert")
        /\ is_slot_booked(bookings, run[s].court, run[s].date, run[s].time_choice))
       => (outcome'.result = "SlotAlreadyBooked" /\ bookings' = bookings)]_vars

\* C3: a book request executed as one step leaves its claimant with at most 6
\* outstanding reservations, no step but an insert of the claimant's raises
\* the claimant's number, and a request for a slot executed as one step when
\* the claimant has 6 is rejected with GlobalQuotaExceeded.
QuotaCeiling ==
  [][/\ \A s \in Sessions :
          /\ (Leaves(s, "insert") /\ pc'[s] = "log" /\ OneStep(s))
             => OutstandingAt(bookings', now'.day, now'.hour, villa[s]) <= 6
          /\ (/\ Leaves(s, "confirm")
              /\ run[s].time_choice # None
              /\ OneStep(s)
              /\ Cardinality(OutstandingOf(villa[s])) = 6)
             => (/\ outcome'.session = s
                 /\ outcome'.result = "GlobalQuotaExceeded"
                 /\ bookings' = bookings)
     /\ \A v \in Villas :
          (\A s \in Sessions : ~(Leaves(s, "insert") /\ villa[s] = v))
            => OutstandingAt(bookings', now'.day, now'.hour, v)
                 <= OutstandingAt(bookings, now.day, now.hour, v)]_vars

\* C3 witness: a claimant with 6 outstanding reservations has just been refused.
QuotaCeilingReached ==
  /\ outcome.op = "book"
  /\ outcome.result = "GlobalQuotaExceeded"
  /\ Cardinality(OutstandingOf(villa[outcome.session])) = 6

\* C4: a book request executed as one step leaves its claimant with at most 2
\* outstanding reservations on its date; executed as one step, a third
\* booking on a date is rejected with DailyQuotaExceeded, and a booking of a
\* free slot on a date with fewer than 2 reservations, by a claimant with
\* fewer than 6 outstanding, succeeds.
DailyCeiling ==
  [][\A s \in Sessions :
       LET v == villa[s]
           d == run[s].date
           free == SlotRows(bookings, run[s].court, d, run[s].time_choice) = {}
       IN /\ (Leaves(s, "insert") /\ pc'[s] = "log" /\ OneStep(s))
             => Cardinality({b \in bookings' :
                               /\ b.villa = v
                               /\ b.date = d
                               /\ (d > now'.day \/ (d = now'.day /\ b.start_hour >= now'.hour))})
                  <= 2
          /\ (/\ Leaves(s, "confirm")
              /\ run[s].time_choice # None
              /\ OneStep(s)
              /\ Cardinality(OutstandingOn(v, d)) = 2
              /\ Cardinality(OutstandingOf(v)) < 6)
             => (/\ outcome'.session = s
                 /\ outcome'.result = "DailyQuotaExceeded"
                 /\ bookings' = bookings)
          /\ (/\ Leaves(s, "confirm")
              /\ run[s].time_choice # None
              /\ OneStep(s)
              /\ free
              /\ Cardinality(RowsOn(v, d)) < 2
              /\ Cardinality(OutstandingOf(v)) < 6)
             => pc'[s] = "insert"
          /\ (Leaves(s, "insert") /\ free)
             => (/\ pc'[s] = "log"
                 /\ \E b \in bookings' \ bookings : RequestRow(s, b))
          /\ Leaves(s, "log")
             => (outcome'.session = s /\ outcome'.result = "Ok")]_vars

\* C4 witness: a third booking on a date has just been refused while the
\* claimant has fewer than 6 outstanding reservations, fewer than 2 of them on
\* another date.
DailyCeilingReached ==
  /\ outcome.op = "book"
  /\ outcome.result = "DailyQuotaExceeded"
  /\ Cardinality(OutstandingOn(villa[outcome.session], outcome.date)) = 2
  /\ Cardinality(OutstandingOf(villa[outcome.session])) < 6
  /\ \E d \in now.day..(now.day + WindowDays) :
       Cardinality(RowsOn(villa[outcome.session], d)) < 2

\* C5: the handler reports the first failing check in the order SlotExpired,
\* GlobalQuotaExceeded, DailyQuotaExceeded, SlotAlreadyBooked, and goes on to
\* the insert only when none fails.
ValidationOrder ==
  [][\A s \in Sessions :
       (pc[s] = "confirm" /\ pc'[s] # "confirm") =>
         LET expired == run[s].time_choice = None
             overall == run[s].active_count >= 6
             daily == run[s].daily_count >= 2
             taken == SlotRows(bookings, run[s].court, run[s].date,
                               run[s].time_choice) # {}
         IN /\ expired => outcome'.result = "SlotExpired"
            /\ (~expired /\ overall) => outcome'.result = "GlobalQuotaExceeded"
            /\ (~expired /\ ~overall /\ daily) => outcome'.result = "DailyQuotaExceeded"
            /\ (~expired /\ ~overall /\ ~daily /\ taken)
                 => outcome'.result = "SlotAlreadyBooked"
            /\ (~expired /\ ~overall /\ ~daily /\ ~taken) => pc'[s] = "insert"]_vars

\* C5 witness: a claimant with 6 outstanding reservations, 2 of them on the
\* requested date, whose slot another session has taken meanwhile, has been
\* told GlobalQuotaExceeded.
ValidationOrderExample ==
  /\ outcome.op = "book"
  /\ outcome.result = "GlobalQuotaExceeded"
  /\ Cardinality(OutstandingOf(villa[outcome.session])) >= 6
  /\ Cardinality(RowsOn(villa[outcome.session], outcome.date)) >= 2
  /\ SlotRows(bookings, outcome.court, outcome.date, outcome.start_hour) # {}

\* C6: the slot of today's current hour, when free, is offered at minute 0,
\* and a run that has chosen it, by a claimant it has counted under both
\* quotas, books it; at any later minute it is Elapsed and is not listed, only
\* a listed hour is chosen, and a run that finds no hour left reports
\* SlotExpired.
BoundaryConsistency ==
  /\ [](\A court \in ReqCourts :
          LET free_hours == get_available_hours(bookings, AtOnce(now), court, now.day)
          IN /\ (now.minute = 0 /\ SlotRows(bookings, court, now.day, now.hour) = {})
                  => selectable(free_hours, now.hour)
             /\ now.minute > 0
                  => (/\ is_slot_in_past(now, now.day, now.hour)
                      /\ ~selectable(free_hours, now.hour)))
  /\ [][\A s \in Sessions :
          LET free == SlotRows(bookings, run[s].court, run[s].date,
                               run[s].time_choice) = {}
              listed == {run'[s].free_hours[i] : i \in 1..Len(run'[s].free_hours)}
          IN /\ (/\ pc[s] = "loop"
                 /\ run'[s] # run[s]
                 /\ run[s].date = now.day
                 /\ run[s].h = now.hour)
                => (/\ now.minute > 0 => now.hour \notin listed
                    /\ (now.minute = 0 /\ now.hour \notin run[s].booked_hours)
                         => now.hour \in listed)
             /\ Leaves(s, "choose")
                => (/\ run'[s].time_choice = None => run[s].free_hours = <<>>
                    /\ run'[s].time_choice # None
                         => \E i \in 1..Len(run[s].free_hours) :
                              run[s].free_hours[i] = run'[s].time_choice)
             /\ (Leaves(s, "confirm") /\ run[s].time_choice = None)
                => (outcome'.result = "SlotExpired" /\ bookings' = bookings)
             /\ (/\ Leaves(s, "confirm")
                 /\ run[s].time_choice # None
                 /\ run[s].active_count < 6
                 /\ run[s].daily_count < 2
                 /\ free) => pc'[s] = "insert"
             /\ (Leaves(s, "insert") /\ free)
                => (/\ pc'[s] = "log"
                    /\ SlotRows(bookings', run[s].court, run[s].date,
                                run[s].time_choice) # {})
             /\ Leaves(s, "log") => outcome'.result = "Ok"]_vars

\* C6 witness: the current hour of today has just been booked at minute 0.
BoundaryBooked ==
  /\ outcome.op = "book"
  /\ outcome.result = "Ok"
  /\ outcome.date = now.day
  /\ outcome.start_hour = now.hour
  /\ now.minute = 0

ClaimDates == 0..(MaxDay + MaxAhead)

\* C7 as stated: a slot is Elapsed exactly when its date is before today, or
\* it is today's and its hour is before the current hour, or its hour is the
\* current hour and the minute is past 0.
ElapsedAsStated ==
  \A d \in ClaimDates : \A h \in start_hours :
    is_slot_in_past(now, d, h) <=>
      \/ d < now.day
      \/ d = now.day /\ h < now.hour
      \/ h = now.hour /\ now.minute > 0

\* C7 as amended: the third case holds for today's slots only.
ElapsedAmended ==
  \A d \in ClaimDates : \A h \in start_hours :
    is_slot_in_past(now, d, h) <=>
      \/ d < now.day
      \/ d = now.day /\ h < now.hour
      \/ d = now.day /\ h = now.hour /\ now.minute > 0

\* C7 witness: past minute 0 the current hour is Elapsed today and not tomorrow.
ElapsedMidHour ==
  /\ now.minute > 0
  /\ now.hour \in start_hours
  /\ is_slot_in_past(now, now.day, now.hour)
  /\ ~is_slot_in_past(now, now.day + 1, now.hour)

\* C8: the overall count is the number of the claimant's reservations that
\* are outstanding, whatever the minute; a reservation of today's current
\* hour counts past minute 0, while its slot is Elapsed.
OutstandingPredicate ==
  /\ \A v \in Villas :
       get_active_bookings_count(bookings, get_today(now), now.hour, v)
         = Cardinality(OutstandingOf(v))
  /\ \A b \in bookings :
       (b.date = now.day /\ b.start_hour = now.hour /\ now.minute > 0)
         => (/\ active_filter(b, get_today(now), now.hour)
             /\ get_active_bookings_count(bookings, get_today(now), now.hour, b.villa) >= 1
             /\ is_slot_in_past(now, b.date, b.start_hour))

\* C8 witness: a reservation of today's current hour, past minute 0.
OutstandingMidHour ==
  \E b \in bookings : b.date = now.day /\ b.start_hour = now.hour /\ now.minute > 0

\* C9: a cancel of an id that no reservation of the caller has reports
\* NotFound and leaves the table as it was.
CancelNotFound ==
  [][\A s \in Sessions :
       (/\ Leaves(s, "select")
        /\ ~(\E b \in bookings : b.id = Head(run[s].ids) /\ b.villa = villa[s]))
       => (outcome'.result = "NotFound" /\ bookings' = bookings)]_vars

\* C10: when the sweep completes, no reservation is left whose date is before
\* the today it read, or whose date is that today and hour before the hour it
\* read; and each of its deletes leaves every other reservation in the table.
ReclaimPostcondition ==
  [][\A s \in Sessions :
       LET today == run[s].today_str
           current_hour == run[s].now_hour
       IN /\ Leaves(s, "sweep_date") =>
               /\ \A b \in bookings' : ~(b.date < today)
               /\ \A b \in bookings : ~(b.date < today) => b \in bookings'
          /\ Leaves(s, "sweep_hour") =>
               /\ \A b \in bookings' :
                    ~(b.date < today \/ (b.date = today /\ b.start_hour < current_hour))
               /\ \A b \in bookings :
                    ~(b.date = today /\ b.start_hour < current_hour) => b \in bookings']_vars

\* C11: on the table a sweep leaves, a second sweep at the same clock reading
\* deletes nothing.
IdempotentReclaim ==
  LET once == delete_expired_bookings(bookings, now)
  IN delete_expired_bookings(once, now) = once

\* C11 witness: no booking was cancelled, a sweep has removed a booking of an
\* earlier day and one of an earlier hour of today, and a sweep now would
\* delete nothing.
ReclaimedBothWays ==
  /\ outcome = NoReport
  /\ \A i \in 1..Len(logs) : logs[i].event_type = "Booking Created"
  /\ \E i \in 1..Len(logs) :
       /\ logs[i].date < now.day
       /\ SlotRows(bookings, logs[i].court, logs[i].date, logs[i].start_hour) = {}
  /\ Cardinality(bookings) <= next_id - 3
  /\ \E b \in bookings : b.date = now.day
  /\ delete_expired_bookings(bookings, now) = bookings

\* C12: whatever the other sessions and the clock do between the sweep's
\* steps, neither delete removes a booking that is outstanding at the moment
\* of the delete.
ReclaimSafeUnderConcurrency ==
  [][\A s \in Sessions :
       (Leaves(s, "sweep_date") \/ Leaves(s, "sweep_hour"))
         => \A b \in bookings \ bookings' : ~Outstanding(b)]_vars

\* C12 witness: a sweep stands between its two deletes, the day has changed
\* since its clock reading, a booking was made meanwhile, and a booking of
\* the new day is outstanding with an hour before the hour the sweep read.
SweepOvertaken ==
  \E s \in Sessions :
    /\ pc[s] = "sweep_hour"
    /\ run[s].today_str < now.day
    /\ Len(logs) > 0
    /\ \E b \in bookings :
         b.date = now.day /\ b.start_hour >= now.hour /\ b.start_hour < run[s].now_hour

\* C13: a successful book inserts exactly one row, carrying the claimant, court,
\* date and hour of the request, appends exactly one "Booking Created" log
\* row, returns the id of the new row, and leaves every other row as it was.
BookFrame ==
  [][\A s \in Sessions :
       /\ (Leaves(s, "insert") /\ pc'[s] = "log") =>
            /\ Cardinality(bookings' \ bookings) = 1
            /\ \A b \in bookings' \ bookings : RequestRow(s, b)
            /\ bookings \subseteq bookings'
            /\ logs' = logs
       /\ Leaves(s, "log") =>
            /\ outcome'.result = "Ok"
            /\ bookings' = bookings
            /\ logs' = Append(logs, log_row("Booking Created", villa[s], run[s].court,
                                            run[s].date, run[s].time_choice))
            /\ \E b \in bookings : RequestRow(s, b) /\ outcome'.id = b.id]_vars

\* C14: a cancel by the claimant of an existing row is not refused, removes
\* that row and no other, and reports success, whatever the clock reads.
CancelFrame ==
  [][\A s \in Sessions :
       /\ (/\ Leaves(s, "select")
           /\ \E b \in bookings : b.id = Head(run[s].ids) /\ b.villa = villa[s])
          => (pc'[s] = "cancel_log" /\ bookings' = bookings)
       /\ Leaves(s, "cancel_log") => (pc'[s] = "delete" /\ bookings' = bookings)
       /\ Leaves(s, "delete")
          => (/\ bookings' = {b \in bookings : b.id # run[s].booking_id}
              /\ pc'[s] = "idle" => outcome'.result = "Cancelled")]_vars

\* C14 witness: a claimant holding another booking has just cancelled one of a
\* slot whose hour had started.
CancelledStartedSlot ==
  /\ outcome.op = "cancel"
  /\ outcome.result = "Cancelled"
  /\ Len(logs) > 0
  /\ LET l == logs[Len(logs)]
     IN /\ l.event_type = "Booking Deleted"
        /\ l.villa = villa[outcome.session]
        /\ is_slot_in_past(now, l.date, l.start_hour)
        /\ SlotRows(bookings, l.court, l.date, l.start_hour) = {}
  /\ \A b \in bookings : b.id # outcome.id
  /\ \E b \in bookings : b.villa = villa[outcome.session]

\* C15: the list get_available_hours returns is ascending, without repeats,
\* and holds exactly the hours of 7..21 that have no row for (court, date) in
\* the answer to its request and are not Elapsed, at some one instant not
\* later than its return.
FreeHoursExact ==
  [][\A s \in Sessions :
       Leaves(s, "loop") =>
         LET free_hours == run'[s].free_hours
         IN /\ \A i \in 1..Len(free_hours) : \A j \in 1..Len(free_hours) :
                 i < j => free_hours[i] < free_hours[j]
            /\ \E t \in [day : 0..now.day, hour : 0..23, minute : Minutes] :
                 /\ ~Later(t, now)
                 /\ {free_hours[i] : i \in 1..Len(free_hours)}
                      = {h \in FirstHour..LastHour :
                           /\ h \notin run[s].booked_hours
                           /\ ~is_slot_in_past(t, run[s].date, h)}]_vars

\* C16: a row never changes, and it leaves the table only by a cancel of its
\* own claimant or by a sweep when its slot has fully elapsed.
Lifecycle ==
  [][/\ \A b \in bookings : \A c \in bookings' : b.id = c.id => b = c
     /\ \A b \in bookings \ bookings' :
          \/ \E s \in Sessions :
               /\ Leaves(s, "delete")
               /\ run[s].booking_id = b.id
               /\ villa[s] = b.villa
          \/ /\ \E s \in Sessions : Leaves(s, "sweep_date") \/ Leaves(s, "sweep_hour")
             /\ (b.date < now.day \/ (b.date = now.day /\ b.start_hour + 1 <= now.hour))]_vars

\* C16 witness: a claimant has cancelled one reservation, the sweep has
\* removed another, whose slot had elapsed, and a third is still in the table
\* as it was made.
LifecycleBothEnds ==
  /\ outcome = NoReport
  /\ Len(logs) = 1
  /\ logs[1].event_type = "Booking Deleted"
  /\ SlotRows(bookings, logs[1].court, logs[1].date, logs[1].start_hour) = {}
  /\ \E i \in 1..(next_id - 1) :
       /\ SeedRow(i) \notin bookings
       /\ is_slot_in_past(now, SeedRow(i).date, SeedRow(i).start_hour)
       /\ SeedRow(i).start_hour # logs[1].start_hour
  /\ \E i \in 1..(next_id - 1) : SeedRow(i) \in bookings

\* C17: every step leaves the logs table with its former rows as a prefix, and
\* the steps of the sweep append nothing.
LogAppendOnly ==
  [][/\ Len(logs') >= Len(logs)
     /\ SubSeq(logs', 1, Len(logs)) = logs
     /\ (\E s \in Sessions : \E p \in {"sweep_date", "sweep_hour"} :
           pc'[s] # pc[s] /\ (pc[s] = p \/ pc'[s] = p)) => logs' = logs]_vars

\* C17 witness: a cancellation has just been logged after a booking.
LogGrown ==
  /\ outcome.op = "cancel"
  /\ Len(logs) = 2
  /\ logs[1].event_type = "Booking Created"
  /\ logs[2].event_type = "Booking Deleted"

\* C18: a cancel that has appended a "Booking Deleted" log row for an id then
\* removes the row of that id from the table.
DeletedLoggedOnlyOnSuccess ==
  [][\A s \in Sessions :
       (Leaves(s, "delete") /\ run[s].record # {})
       => \E b \in bookings \ bookings' : b.id = run[s].booking_id]_vars

\* C19: with the sessions' book requests interleaving, and no slot booked
\* twice, no claimant has more than 6 outstanding bookings or more than 2 on
\* one date.
QuotaUnderInterleaving ==
  MutualExclusion =>
    \A v \in Villas :
      /\ Cardinality(OutstandingOf(v)) <= 6
      /\ \A b \in bookings : Cardinality(OutstandingOn(v, b.date)) <= 2

\* C20: no row is inserted for a slot that is Elapsed when it is inserted.
NoElapsedInsert ==
  [][\A b \in bookings' \ bookings : ~is_slot_in_past(now', b.date, b.start_hour)]_vars

\* C21: the count a request takes from get_active_bookings_count is the
\* number of the claimant's rows outstanding at one instant (day, hour)
\* between the call's first clock reading and its request, also when the
\* clock moves on during the call.
SingleClockReading ==
  [][\A s \in Sessions :
       Leaves(s, "active") =>
         LET t == run[s].today_at
         IN \E d \in t.day..now.day : \E h \in 0..23 :
              /\ (d > t.day \/ h >= t.hour)
              /\ (d < now.day \/ h <= now.hour)
              /\ run'[s].active_count = OutstandingAt(bookings, d, h, villa[s])]_vars

\* C22: a book request that is rejected with SlotExpired, GlobalQuotaExceeded,
\* DailyQuotaExceeded or SlotAlreadyBooked has left the bookings and the logs
\* tables as they were at each of its steps, and its run ends there.
RejectedBookFrame ==
  [][\A s \in Sessions :
       /\ (\E p \in {"idle", "dates", "loop", "choose", "today", "hour", "active", "daily", "confirm"} :
             Leaves(s, p))
          => (bookings' = bookings /\ logs' = logs /\ next_id' = next_id)
       /\ (/\ outcome'.op = "book"
           /\ outcome'.session = s
           /\ outcome'.result \in {"SlotExpired", "GlobalQuotaExceeded",
                                   "DailyQuotaExceeded", "SlotAlreadyBooked"})
          => (Leaves(s, "confirm") /\ pc'[s] = "idle" /\ run'[s] = NoLocals)]_vars

\* C22 witness: a request has just been told SlotAlreadyBooked; the slot has
\* the one row of the request that took it, and the log its one entry.
RejectedAsTaken ==
  /\ outcome.op = "book"
  /\ outcome.result = "SlotAlreadyBooked"
  /\ pc[outcome.session] = "idle"
  /\ Cardinality(SlotRows(bookings, outcome.court, outcome.date, outcome.start_hour)) = 1
  /\ Len(logs) = 1

\* C23: the insert of a successful book raises the claimant's outstanding
\* count by exactly 1; no other step raises a claimant's count, and the steps
\* of the sweep leave every count as it was.
OutstandingCountChanges ==
  [][\A v \in Villas :
       LET before == OutstandingAt(bookings, now.day, now.hour, v)
           after == OutstandingAt(bookings', now'.day, now'.hour, v)
           booked == \E s \in Sessions :
                       Leaves(s, "insert") /\ pc'[s] = "log" /\ villa[s] = v
       IN /\ booked => after = before + 1
          /\ ~booked => after <= before
          /\ (\E s \in Sessions : Leaves(s, "sweep_date") \/ Leaves(s, "sweep_hour"))
               => after = before]_vars

\* C24: whatever the table and the clock, a book request that can be made gets
\* the same result on the table as it is and on the table a sweep would leave.
ReclaimKeepsBookOutcome ==
  \A v \in Villas : \A court \in ReqCourts : \A d \in ReqDates :
    \A h \in ReqHours \cup {None} :
      LET swept == delete_expired_bookings(bookings, now)
      IN selectable(get_available_hours(bookings, AtOnce(now), court, d), h)
           => /\ selectable(get_available_hours(swept, AtOnce(now), court, d), h)
              /\ book_outcome(bookings, now, v, court, d, h)
                   = book_outcome(swept, now, v, court, d, h)

====
